---- MODULE Spec2Model ----
(***************************************************************************)
(* golf-stats: handicap calculator, hole scoring, card aggregation, round  *)
(* resolution and league standings (app/golf_calc.py, app/crud.py,         *)
(* app/main.py), as a state machine over the persistent store.             *)
(*                                                                         *)
(* Numbers.  A handicap index is kept in tenths (14.3 is 143).  A float    *)
(* quotient of two integers is kept as the pair <<numerator, denominator>> *)
(* and compared by cross multiplication.  League points are kept in units  *)
(* of 1/PointsUnit of a point.                                             *)
(***************************************************************************)
EXTENDS Integers, Sequences, FiniteSets, TLC

VARIABLES
    calc,           \* one call of a golf_calc function: its arguments and result
    players,        \* table players:        id -> row
    courses,        \* table courses:        id -> row
    holes,          \* table holes:          course_id -> rows, ordered by number
    leagues,        \* table leagues:        id -> row
    rounds,         \* table rounds:         id -> row
    round_players,  \* table round_players:  id -> row
    hole_scores,    \* table hole_scores:    round_player_id -> rows of the card
    next_round_id,  \* autoincrement of rounds.id
    next_rp_id,     \* autoincrement of round_players.id
    response        \* what the last request answered

vars == <<calc, players, courses, holes, leagues, rounds, round_players,
          hole_scores, next_round_id, next_rp_id, response>>

db_vars == <<players, courses, holes, leagues, rounds, round_players,
             hole_scores, next_round_id, next_rp_id>>

\* NULL of a string column
None == "None"
\* a nullable number or boolean: <<>> is NULL, <<v>> is the value v
Null == <<>>
Some(v) == <<v>>
Val(x) == x[1]

\* no call of a function is being looked at
NoCall == [fn |-> "none"]

\* the answers of a handler: a redirect, or the error page of an exception
\* that no handler catches, raised in the function named by at
NoResponse == [status |-> 0, error |-> None, at |-> None]
Redirect == [status |-> 303, error |-> None, at |-> None]
ServerError(error, at) == [status |-> 500, error |-> error, at |-> at]

(***************************************************************************)
(* Program constants                                                       *)
(***************************************************************************)
NumHoles == 18
NeutralSlope == 113
MinNetRounds == 5

(***************************************************************************)
(* Bounds of the model                                                     *)
(***************************************************************************)
MaxCH == 40             \* course handicaps 0..MaxCH given to the calculator
MaxHcpTenths == 150     \* handicap indexes 0.0 .. 15.0
MaxStrokes == 12        \* strokes on one hole, MinStrokes..MaxStrokes
MaxBelowZero == 4       \* net strokes may fall below zero: down to -MaxBelowZero

Slopes == {NeutralSlope, 120, 125}
Pars == {3, 4, 5}
HoleNumbers == 1..NumHoles

(***************************************************************************)
(* Courses: 18 holes, ordered by number (crud.get_holes_for_course)        *)
(***************************************************************************)
ParOfHole == <<4, 4, 3, 5, 4, 3, 4, 5, 4, 4, 3, 4, 5, 4, 4, 3, 5, 4>>

\* stroke-index permutations of 1..18: the rotations and their mirror images
Rotation(k) == [n \in HoleNumbers |-> ((n + k - 1) % NumHoles) + 1]
Mirror(perm) == [n \in HoleNumbers |-> NumHoles + 1 - perm[n]]
StrokeIndexPerms ==
    {Rotation(k) : k \in 0..(NumHoles - 1)}
        \cup {Mirror(Rotation(k)) : k \in 0..(NumHoles - 1)}

Hole(n, par, si) == [number |-> n, par |-> par, stroke_index |-> si]
HolesOf(perm) == [n \in HoleNumbers |-> Hole(n, ParOfHole[n], perm[n])]

(***************************************************************************)
(* app/golf_calc.py                                                        *)
(***************************************************************************)
\* Python 3 round(): to the nearest integer, an exact half to the even one.
\* num/den is the exact value of the float being rounded, den > 0.
round(num, den) ==
    LET q == num \div den
        r == num % den
    IN  IF 2 * r < den THEN q
        ELSE IF 2 * r > den THEN q + 1
        ELSE IF q % 2 = 0 THEN q ELSE q + 1

\* int(round(hcp_exact * (slope / 113.0))), hcp_exact given in tenths
course_handicap(hcp_tenths, slope) ==
    round(hcp_tenths * slope, 10 * NeutralSlope)

\* sorted(holes, key=lambda h: h.stroke_index): a stable sort
RECURSIVE sorted_by_stroke_index(_)
sorted_by_stroke_index(hs) ==
    IF hs = <<>> THEN <<>>
    ELSE LET h == Head(hs)
             rest == sorted_by_stroke_index(Tail(hs))
         IN  SelectSeq(rest, LAMBDA x : x.stroke_index < h.stroke_index)
                 \o <<h>>
                 \o SelectSeq(rest, LAMBDA x : x.stroke_index >= h.stroke_index)

NumbersOf(hs) == {hs[i].number : i \in 1..Len(hs)}

\* the mutants of strokes_received_per_hole used by the checks below
strokes_received_short(ch, hs) ==
    LET base == ch \div NumHoles
        extra == ch % NumHoles
        ordered == sorted_by_stroke_index(hs)
    IN  [n \in NumbersOf(hs) |->
            base + Cardinality({i \in 1..(extra - 1) : ordered[i].number = n})]

\* no hole receives more than one stroke
strokes_received_capped(ch, hs) ==
    LET extra == IF ch >= NumHoles THEN NumHoles ELSE ch % NumHoles
        ordered == sorted_by_stroke_index(hs)
    IN  [n \in NumbersOf(hs) |->
            Cardinality({i \in 1..extra : ordered[i].number = n})]

strokes_received_unsorted(ch, hs) ==
    LET base == ch \div NumHoles
        extra == ch % NumHoles
    IN  [n \in NumbersOf(hs) |->
            base + Cardinality({i \in 1..extra : hs[i].number = n})]

\* ordered[i] for i in range(extra) raises IndexError when the hole list is
\* shorter than extra
strokes_received_raises(ch, hs) == ch % NumHoles > Len(hs)

\* {hole_number: strokes received}, when no IndexError is raised
strokes_received_per_hole(ch, hs) ==
    LET base == ch \div NumHoles
        extra == ch % NumHoles
        ordered == sorted_by_stroke_index(hs)
    IN  [n \in NumbersOf(hs) |->
            base + Cardinality({i \in 1..extra : ordered[i].number = n})]

\* the mutants of stableford_points used by the checks below
stableford_points_shifted(net_strokes, par) ==
    LET diff == net_strokes - par
    IN  IF diff >= 3 THEN 0
        ELSE IF diff = 2 THEN 1
        ELSE IF diff = 1 THEN 2
        ELSE IF diff = 0 THEN 3
        ELSE IF diff = -1 THEN 4
        ELSE IF diff = -2 THEN 5
        ELSE 6

stableford_points_swapped(net_strokes, par) ==
    LET diff == net_strokes - par
    IN  IF diff >= 2 THEN 0
        ELSE IF diff = 1 THEN 1
        ELSE IF diff = 0 THEN 3
        ELSE IF diff = -1 THEN 2
        ELSE IF diff = -2 THEN 4
        ELSE IF diff = -3 THEN 5
        ELSE 6

stableford_points(net_strokes, par) ==
    LET diff == net_strokes - par
    IN  IF diff >= 2 THEN 0
        ELSE IF diff = 1 THEN 1
        ELSE IF diff = 0 THEN 2
        ELSE IF diff = -1 THEN 3
        ELSE IF diff = -2 THEN 4
        ELSE IF diff = -3 THEN 5
        ELSE 6

(***************************************************************************)
(* Tables.  A table is a function from the ids of its rows to the rows; a  *)
(* query without ORDER BY returns the rows in primary-key order.           *)
(***************************************************************************)
RECURSIVE SortedIds(_)
SortedIds(S) ==
    IF S = {} THEN <<>>
    ELSE LET m == CHOOSE x \in S : \A y \in S : x <= y
         IN  <<m>> \o SortedIds(S \ {m})

RECURSIVE SumSeq(_)
SumSeq(q) == IF q = <<>> THEN 0 ELSE Head(q) + SumSeq(Tail(q))

\* crud.get_round_players: the ids of the round's RoundPlayers, in order
get_round_players(rps, round_id) ==
    SortedIds({id \in DOMAIN rps : rps[id].round_id = round_id})

\* crud.get_holes_for_course
get_holes_for_course(course_id) ==
    IF course_id \in DOMAIN holes THEN holes[course_id] ELSE <<>>

(***************************************************************************)
(* A submitted form field is [kind, val]: kind "absent" (no such field),   *)
(* "blank" (the empty string), "int" (text that int() parses to val) or    *)
(* "text" (text on which int() raises ValueError).                         *)
(***************************************************************************)
Absent == [kind |-> "absent", val |-> 0]
Blank == [kind |-> "blank", val |-> 0]
IntText(n) == [kind |-> "int", val |-> n]
BadText == [kind |-> "text", val |-> 0]

\* v not in (None, "", " ")
Filled(v) == v.kind \in {"int", "text"}

(***************************************************************************)
(* crud.save_card_for_round_player, lines 430-522: the card computed from  *)
(* the stored course handicap, the holes and the three input maps          *)
(* (gross: number -> int; putts: number -> Null or <<int>>; fir: number -> *)
(* Null or <<bool>>).                                                      *)
(***************************************************************************)
\* the mutant of hole_score_row used by the checks below: the strokes
\* received are not taken off
hole_score_row_gross_net(h, received, gross_by_hole, putts_by_hole, fir_by_hole) ==
    LET g == gross_by_hole[h.number]
        p == putts_by_hole[h.number]
    IN  [hole_number |-> h.number,
         gross_strokes |-> g,
         putts |-> p,
         fir |-> IF h.par # 3
                 THEN Some(fir_by_hole[h.number] = Some(TRUE))
                 ELSE Null,
         gir |-> IF p # Null THEN Some(g - Val(p) <= h.par - 2) ELSE Null,
         net_strokes |-> g,
         stableford_points |-> stableford_points(g, h.par),
         scratch_points |-> stableford_points(g, h.par)]

hole_score_row(h, received, gross_by_hole, putts_by_hole, fir_by_hole) ==
    LET g == gross_by_hole[h.number]
        p == putts_by_hole[h.number]
        net == g - received[h.number]
    IN  [hole_number |-> h.number,
         gross_strokes |-> g,
         putts |-> p,
         fir |-> IF h.par # 3
                 THEN Some(fir_by_hole[h.number] = Some(TRUE))
                 ELSE Null,
         gir |-> IF p # Null THEN Some(g - Val(p) <= h.par - 2) ELSE Null,
         net_strokes |-> net,
         stableford_points |-> stableford_points(net, h.par),
         scratch_points |-> stableford_points(g, h.par)]

card_rows(ch, hs, gross_by_hole, putts_by_hole, fir_by_hole) ==
    LET received == strokes_received_per_hole(ch, hs)
    IN  [i \in 1..Len(hs) |->
            hole_score_row(hs[i], received, gross_by_hole, putts_by_hole,
                           fir_by_hole)]

card_totals(rows) ==
    [gross_total |-> SumSeq([i \in 1..Len(rows) |-> rows[i].gross_strokes]),
     net_total |-> SumSeq([i \in 1..Len(rows) |-> rows[i].net_strokes]),
     stableford_hcp_total |->
        SumSeq([i \in 1..Len(rows) |-> rows[i].stableford_points]),
     stableford_scratch_total |->
        SumSeq([i \in 1..Len(rows) |-> rows[i].scratch_points]),
     putts_total |->
        SumSeq([i \in 1..Len(rows) |->
                    IF rows[i].putts # Null THEN Val(rows[i].putts) ELSE 0])]

\* the HoleScore columns of a computed row
stored_row(row) ==
    [hole_number |-> row.hole_number, gross_strokes |-> row.gross_strokes,
     putts |-> row.putts, fir |-> row.fir, gir |-> row.gir,
     net_strokes |-> row.net_strokes,
     stableford_points |-> row.stableford_points]

\* the mutant of score_category used by the checks below: a hole in one is
\* not set apart
score_category_by_diff(g, par) ==
    LET d == g - par
    IN  IF d <= -3 THEN "albatros"
        ELSE IF d = -2 THEN "eagles"
        ELSE IF d = -1 THEN "birdies"
        ELSE IF d = 0 THEN "pars"
        ELSE IF d = 1 THEN "bogeys"
        ELSE IF d = 2 THEN "dbl"
        ELSE "overdbl"

\* lines 482-493: the result of the hole by gross against par
score_category(g, par) ==
    IF g = 1 THEN "hio"
    ELSE LET d == g - par
         IN  IF d <= -3 THEN "albatros"
             ELSE IF d = -2 THEN "eagles"
             ELSE IF d = -1 THEN "birdies"
             ELSE IF d = 0 THEN "pars"
             ELSE IF d = 1 THEN "bogeys"
             ELSE IF d = 2 THEN "dbl"
             ELSE "overdbl"

\* lines 524-540: the dictionary save_card_for_round_player returns
card_aggregates(hs, rows) ==
    LET t == card_totals(rows)
        idx == 1..Len(rows)
        in_category(c) ==
            Cardinality({i \in idx :
                score_category(rows[i].gross_strokes, hs[i].par) = c})
    IN  [gross_total |-> t.gross_total,
         net_total |-> t.net_total,
         points_total |-> t.stableford_hcp_total,
         fir_total |-> Cardinality({i \in idx : rows[i].fir = Some(TRUE)}),
         fir_possible |-> Cardinality({i \in idx : hs[i].par # 3}),
         gir_total |-> Cardinality({i \in idx : rows[i].gir = Some(TRUE)}),
         gir_possible |-> Cardinality({i \in idx : rows[i].putts # Null}),
         hio |-> in_category("hio"),
         albatros |-> in_category("albatros"),
         eagles |-> in_category("eagles"),
         birdies |-> in_category("birdies"),
         pars |-> in_category("pars"),
         bogeys |-> in_category("bogeys"),
         dbl |-> in_category("dbl"),
         overdbl |-> in_category("overdbl")]

(***************************************************************************)
(* crud.close_round_and_set_winner                                         *)
(***************************************************************************)
\* ",".join(str(x) for x in ids)
RECURSIVE join_comma(_)
join_comma(ids) ==
    IF ids = <<>> THEN ""
    ELSE IF Len(ids) = 1 THEN ToString(ids[1])
    ELSE ToString(ids[1]) \o "," \o join_comma(Tail(ids))

MaxOf(S) == CHOOSE x \in S : \A y \in S : y <= x

\* max() of an empty sequence raises ValueError
close_round_raises(rps, round_id) ==
    \A id \in DOMAIN rps :
        rps[id].round_id = round_id => rps[id].stableford_hcp_total = Null

\* the mutant of round_winners used by the checks below: only the first
\* participant at the maximum
round_winners_first(rps, round_id) ==
    LET ids == get_round_players(rps, round_id)
        max_pts == MaxOf({Val(rps[ids[i]].stableford_hcp_total) :
                            i \in {j \in 1..Len(ids) :
                                    rps[ids[j]].stableford_hcp_total # Null}})
        all == SelectSeq(ids,
                    LAMBDA id : rps[id].stableford_hcp_total = Some(max_pts))
    IN  <<all[1]>>

\* lines 547-548: the RoundPlayers at the maximum, in iteration order
round_winners(rps, round_id) ==
    LET ids == get_round_players(rps, round_id)
        max_pts == MaxOf({Val(rps[ids[i]].stableford_hcp_total) :
                            i \in {j \in 1..Len(ids) :
                                    rps[ids[j]].stableford_hcp_total # Null}})
    IN  SelectSeq(ids, LAMBDA id : rps[id].stableford_hcp_total = Some(max_pts))

InSeq(x, q) == \E i \in 1..Len(q) : q[i] = x

\* the tables rounds and round_players after the call (no ValueError raised)
close_round_and_set_winner(rnds, rps, round_id) ==
    LET winners == round_winners(rps, round_id)
        single == Len(winners) = 1
        pids == [i \in 1..Len(winners) |-> rps[winners[i]].player_id]
    IN  [rounds |->
            [rnds EXCEPT
                ![round_id].winner_type = IF single THEN "single" ELSE "tie",
                ![round_id].winner_player_ids =
                    IF single THEN ToString(pids[1]) ELSE join_comma(pids)],
         round_players |->
            [id \in DOMAIN rps |->
                IF rps[id].round_id # round_id THEN rps[id]
                ELSE [rps[id] EXCEPT !.result =
                        IF single
                        THEN (IF id = winners[1] THEN "win" ELSE "loss")
                        ELSE (IF InSeq(id, winners) THEN "tie" ELSE "loss")]]]

\* the mutant of close_round used by the checks below: the winner is written
\* before max() raises
close_round_writes_first(rnds, rps, round_id) ==
    IF close_round_raises(rps, round_id)
    THEN [raised |-> TRUE,
          rounds |-> [rnds EXCEPT ![round_id].winner_type = "tie",
                                  ![round_id].winner_player_ids = ""],
          round_players |-> rps]
    ELSE [raised |-> FALSE,
          rounds |-> close_round_and_set_winner(rnds, rps, round_id).rounds,
          round_players |->
            close_round_and_set_winner(rnds, rps, round_id).round_players]

\* the call of close_round_and_set_winner: max() raises ValueError at line
\* 547, before anything is assigned, or the tables are written at line 561
close_round(rnds, rps, round_id) ==
    IF close_round_raises(rps, round_id)
    THEN [raised |-> TRUE, rounds |-> rnds, round_players |-> rps]
    ELSE [raised |-> FALSE,
          rounds |-> close_round_and_set_winner(rnds, rps, round_id).rounds,
          round_players |->
            close_round_and_set_winner(rnds, rps, round_id).round_players]

(***************************************************************************)
(* crud.create_round, called by main.round_new_create                      *)
(***************************************************************************)
new_round(course_id, league_id) ==
    [course_id |-> course_id, league_id |-> league_id,
     winner_type |-> None, winner_player_ids |-> None]

new_round_player(round_id, pid, slope) ==
    [round_id |-> round_id, player_id |-> pid,
     hcp_exact_day |-> players[pid].hcp_exact,
     course_handicap |-> course_handicap(players[pid].hcp_exact, slope),
     gross_total |-> Null, net_total |-> Null,
     stableford_hcp_total |-> Null, stableford_scratch_total |-> Null,
     putts_total |-> Null, result |-> None]

\* POST /admin/rounds/new: player_ids is the submitted list with duplicates
\* dropped and is not empty; match_type is Null (friendly) or <<league id>>.
\* The Round is committed first; the RoundPlayers are committed together, and
\* not at all when a player id (or the course) is unknown.
round_new_create(course_id, match_type, player_ids, max_rounds) ==
    /\ next_round_id <= max_rounds
    /\ Len(player_ids) > 0
    /\ LET rid == next_round_id
           ok == /\ course_id \in DOMAIN courses
                 /\ \A i \in 1..Len(player_ids) : player_ids[i] \in DOMAIN players
           new_ids == [i \in 1..Len(player_ids) |-> next_rp_id + i - 1]
       IN  /\ rounds' = rounds @@ (rid :> new_round(course_id, match_type))
           /\ next_round_id' = rid + 1
           /\ IF ok
              THEN /\ round_players' =
                        [id \in DOMAIN round_players
                                \cup {new_ids[i] : i \in 1..Len(player_ids)} |->
                            IF id \in DOMAIN round_players THEN round_players[id]
                            ELSE new_round_player(rid,
                                    player_ids[id - next_rp_id + 1],
                                    courses[course_id].slope_yellow)]
                   /\ hole_scores' =
                        [id \in DOMAIN hole_scores
                                \cup {new_ids[i] : i \in 1..Len(player_ids)} |->
                            IF id \in DOMAIN hole_scores THEN hole_scores[id]
                            ELSE <<>>]
                   /\ next_rp_id' = next_rp_id + Len(player_ids)
                   /\ response' = Redirect
              ELSE /\ UNCHANGED <<round_players, hole_scores, next_rp_id>>
                   /\ response' = ServerError("AttributeError", "create_round")
    /\ UNCHANGED <<calc, players, courses, holes, leagues>>

(***************************************************************************)
(* main.round_card_player_save: POST /admin/rounds/{round_id}/player/      *)
(* {rp_id}/card.  form = [course_handicap, g, p, fir], g, p and fir from   *)
(* hole numbers to fields.                                                 *)
(***************************************************************************)
\* lines 814-823: int() of a filled field that is no integer raises ValueError
form_raises(form, hs) ==
    \E i \in 1..Len(hs) :
        \/ form.g[hs[i].number].kind = "text"
        \/ form.p[hs[i].number].kind = "text"

gross_of(form, hs) ==
    [n \in NumbersOf(hs) |-> IF Filled(form.g[n]) THEN form.g[n].val ELSE 0]

\* the mutant of putts_of used by the checks below: no putts are 0 putts
putts_of_zero(form, hs) ==
    [n \in NumbersOf(hs) |-> IF Filled(form.p[n]) THEN Some(form.p[n].val) ELSE Some(0)]

putts_of(form, hs) ==
    [n \in NumbersOf(hs) |-> IF Filled(form.p[n]) THEN Some(form.p[n].val) ELSE Null]

fir_of(form, hs) ==
    [n \in NumbersOf(hs) |->
        LET h == hs[CHOOSE i \in 1..Len(hs) : hs[i].number = n]
        IN  IF h.par <= 3 THEN Null ELSE Some(form.fir[n].kind # "absent")]

\* lines 798-807: the course handicap of the form overwrites the stored one
with_form_handicap(rps, rp_id, form) ==
    IF form.course_handicap.kind = "int"
    THEN [rps EXCEPT ![rp_id].course_handicap = form.course_handicap.val]
    ELSE rps

\* the mutant of with_totals used by the checks below: the totals of the
\* card are added to the stored ones
with_totals_added(rps, rp_id, t) ==
    LET old(x) == IF x = Null THEN 0 ELSE Val(x)
        rp == rps[rp_id]
    IN  [rps EXCEPT
            ![rp_id].gross_total = Some(old(rp.gross_total) + t.gross_total),
            ![rp_id].net_total = Some(old(rp.net_total) + t.net_total),
            ![rp_id].stableford_hcp_total =
                Some(old(rp.stableford_hcp_total) + t.stableford_hcp_total),
            ![rp_id].stableford_scratch_total =
                Some(old(rp.stableford_scratch_total) + t.stableford_scratch_total),
            ![rp_id].putts_total = Some(old(rp.putts_total) + t.putts_total)]

\* crud.save_card_for_round_player, lines 515-520
with_totals(rps, rp_id, t) ==
    [rps EXCEPT ![rp_id].gross_total = Some(t.gross_total),
                ![rp_id].net_total = Some(t.net_total),
                ![rp_id].stableford_hcp_total = Some(t.stableford_hcp_total),
                ![rp_id].stableford_scratch_total = Some(t.stableford_scratch_total),
                ![rp_id].putts_total = Some(t.putts_total)]

\* the mutant of all_cards_saved used by the checks below: one card is enough
all_cards_saved_one(rps, round_id) ==
    \E id \in DOMAIN rps :
        rps[id].round_id = round_id /\ rps[id].gross_total # Null

\* line 839
all_cards_saved(rps, round_id) ==
    \A id \in DOMAIN rps :
        rps[id].round_id = round_id => rps[id].gross_total # Null

\* the cards submitted: every hole played delta over par, two putts a hole,
\* no fairway ticked; handicap is the form's course_handicap field
CardForm(handicap, delta) ==
    [course_handicap |-> handicap,
     g |-> [n \in HoleNumbers |-> IntText(ParOfHole[n] + delta)],
     p |-> [n \in HoleNumbers |-> IntText(2)],
     fir |-> [n \in HoleNumbers |-> Absent]]

FormPar == CardForm(Absent, 0)
FormBogey == CardForm(Absent, 1)
FormParScratch == CardForm(IntText(0), 0)
FormDouble == CardForm(Absent, 2)
\* the gross of hole 1 is no number
FormNotANumber == [FormDouble EXCEPT !.g[1] = BadText]

Forms == {FormPar, FormBogey, FormParScratch, FormDouble}
CourseHoles == HolesOf(Rotation(7))
MaxCardCH == 20

\* what a card save computes and stores: the 18 HoleScore rows and the totals
compute_card(ch, hs, form) ==
    LET rows == card_rows(ch, hs, gross_of(form, hs), putts_of(form, hs),
                          fir_of(form, hs))
    IN  [hole_scores |-> [i \in 1..Len(rows) |-> stored_row(rows[i])],
         totals |-> card_totals(rows),
         aggregates |-> card_aggregates(hs, rows)]

(***************************************************************************)
(* The inputs of SpecSave                                                  *)
(***************************************************************************)
\* handicap indexes in tenths, -2.0 to 25.0: course handicaps -2, 0, 6, 15,
\* 18 and 27 on slope 120
SaveHcps == {0 - 20, 0, 57, 143, 170, 250}
SavePerms == {Rotation(7), Rotation(0), Mirror(Rotation(4))}

\* a ticked checkbox
Checked == [kind |-> "on", val |-> 0]

\* a card with every result: par, bogey, a hole in one on a par 3, 2 on a
\* par 5, 2 on a par 4, ..., a hole in one on a par 4, 8 on a par 4
MixedGross == <<4, 5, 1, 2, 2, 3, 6, 4, 7, 3, 2, 4, 5, 1, 8, 3, 6, 4>>
MixedPutts ==
    <<IntText(2), IntText(3), IntText(0), IntText(0), Absent, Blank,
      IntText(3), IntText(1), IntText(4), IntText(1), IntText(1), Absent,
      IntText(2), IntText(0), IntText(3), Blank, IntText(2), IntText(2)>>

FormMixed ==
    [course_handicap |-> Absent,
     g |-> [n \in HoleNumbers |-> IntText(MixedGross[n])],
     p |-> [n \in HoleNumbers |-> MixedPutts[n]],
     fir |-> [n \in HoleNumbers |-> IF n % 2 = 0 THEN Checked ELSE Absent]]

\* the gross of hole 5 is left empty, that of hole 6 is not submitted
FormBlankGross == [FormPar EXCEPT !.g[5] = Blank, !.g[6] = Absent]

\* no putts entered, every fairway ticked
FormNoPutts ==
    [FormBogey EXCEPT !.p = [n \in HoleNumbers |-> Blank],
                      !.fir = [n \in HoleNumbers |-> Checked]]

SaveForms == {FormPar, FormBogey, FormDouble, FormMixed, FormBlankGross,
              FormNoPutts}

SaveSlope == 120
SaveHandicaps == {course_handicap(h, SaveSlope) : h \in SaveHcps}

\* compute_card for the inputs of SpecSave, computed once
SaveCardTable ==
    [ch \in SaveHandicaps, perm \in SavePerms, form \in SaveForms |->
        compute_card(ch, HolesOf(perm), form)]

\* compute_card on the configured course, computed once per handicap and form
CardTable ==
    [ch \in 0..MaxCardCH, form \in Forms |-> compute_card(ch, CourseHoles, form)]

saved_card(ch, hs, form) ==
    IF hs = CourseHoles /\ <<ch, form>> \in DOMAIN CardTable
    THEN CardTable[ch, form]
    ELSE IF /\ ch \in SaveHandicaps /\ form \in SaveForms
            /\ \E perm \in SavePerms : hs = HolesOf(perm)
    THEN SaveCardTable[ch, CHOOSE perm \in SavePerms : hs = HolesOf(perm), form]
    ELSE compute_card(ch, hs, form)

\* the handler's writes and its answer
card_player_save(round_id, rp_id, form) ==
    /\ UNCHANGED <<players, courses, holes, leagues, next_round_id, next_rp_id>>
    /\ IF round_id \notin DOMAIN rounds \/ rp_id \notin DOMAIN round_players
       THEN \* AttributeError on None before anything is written
            /\ UNCHANGED <<rounds, round_players, hole_scores>>
            /\ response' = ServerError("AttributeError", "round_card_player_save")
       ELSE
        LET hs == get_holes_for_course(rounds[round_id].course_id)
            rps1 == with_form_handicap(round_players, rp_id, form)
            ch == rps1[rp_id].course_handicap
        IN  IF form_raises(form, hs)
            THEN \* the handicap is committed, the card is not touched
                 /\ round_players' = rps1
                 /\ UNCHANGED <<rounds, hole_scores>>
                 /\ response' = ServerError("ValueError", "round_card_player_save")
            ELSE IF strokes_received_raises(ch, hs)
            THEN \* the old card is deleted and committed, then IndexError
                 /\ round_players' = rps1
                 /\ hole_scores' = [hole_scores EXCEPT ![rp_id] = <<>>]
                 /\ UNCHANGED rounds
                 /\ response' = ServerError("IndexError", "strokes_received_per_hole")
            ELSE
             LET card == saved_card(ch, hs, form)
                 rps2 == with_totals(rps1, rp_id, card.totals)
                 closed == close_round(rounds, rps2, round_id)
             IN  /\ hole_scores' = [hole_scores EXCEPT ![rp_id] = card.hole_scores]
                 /\ IF ~all_cards_saved(rps2, round_id)
                    THEN /\ round_players' = rps2
                         /\ UNCHANGED rounds
                         /\ response' = Redirect
                    ELSE \* the totals are committed, then the round is closed
                         /\ rounds' = closed.rounds
                         /\ round_players' = closed.round_players
                         /\ response' =
                                IF closed.raised
                                THEN ServerError("ValueError",
                                                 "close_round_and_set_winner")
                                ELSE Redirect

round_card_player_save(round_id, rp_id, form) ==
    /\ card_player_save(round_id, rp_id, form)
    /\ UNCHANGED calc

\* the handler's call of crud.save_card_for_round_player (line 835) returns
\* normally
save_card_returns(round_id, rp_id, form) ==
    /\ round_id \in DOMAIN rounds
    /\ rp_id \in DOMAIN round_players
    /\ LET hs == get_holes_for_course(rounds[round_id].course_id)
           ch == with_form_handicap(round_players, rp_id, form)[rp_id].course_handicap
       IN  ~form_raises(form, hs) /\ ~strokes_received_raises(ch, hs)

\* the same request, with the call of crud.save_card_for_round_player and
\* the dictionary it returns (which the handler drops) kept in calc
round_card_player_save_call(round_id, rp_id, form) ==
    /\ card_player_save(round_id, rp_id, form)
    /\ calc' =
        IF save_card_returns(round_id, rp_id, form)
        THEN LET hs == get_holes_for_course(rounds[round_id].course_id)
                 ch == with_form_handicap(round_players, rp_id, form)[rp_id]
                            .course_handicap
             IN  [fn |-> "save_card_for_round_player", rp_id |-> rp_id,
                  course_handicap |-> ch, holes |-> hs, form |-> form,
                  out |-> saved_card(ch, hs, form).aggregates]
        ELSE NoCall

(***************************************************************************)
(* crud.close_league, called by main.admin_leagues_close                   *)
(***************************************************************************)
\* the mutant of close_league used by the checks below: the request turns
\* the flag over
close_league_toggles(league_id) ==
    /\ league_id \in DOMAIN leagues
    /\ leagues' = [leagues EXCEPT ![league_id].is_closed = ~leagues[league_id].is_closed]
    /\ response' = Redirect
    /\ UNCHANGED <<calc, players, courses, holes, rounds, round_players,
                   hole_scores, next_round_id, next_rp_id>>

close_league(league_id) ==
    /\ league_id \in DOMAIN leagues
    /\ leagues' = [leagues EXCEPT ![league_id].is_closed = TRUE]
    /\ response' = Redirect
    /\ UNCHANGED <<calc, players, courses, holes, rounds, round_players,
                   hole_scores, next_round_id, next_rp_id>>

(***************************************************************************)
(* crud.update_player, called by main.player_edit with the form's          *)
(* hcp_exact (in tenths)                                                   *)
(***************************************************************************)
player_edit(player_id, hcp_exact) ==
    /\ players' = IF player_id \in DOMAIN players
                  THEN [players EXCEPT ![player_id].hcp_exact = hcp_exact]
                  ELSE players
    /\ response' = Redirect
    /\ UNCHANGED <<calc, courses, holes, leagues, rounds, round_players,
                   hole_scores, next_round_id, next_rp_id>>

(***************************************************************************)
(* crud.delete_round, called by main.admin_round_delete: the round, its    *)
(* RoundPlayers and, by cascade, their HoleScores.  Ids are not given      *)
(* again.                                                                  *)
(***************************************************************************)
Without(table, ids) == [id \in DOMAIN table \ ids |-> table[id]]

admin_round_delete(round_id) ==
    /\ LET gone == {id \in DOMAIN round_players :
                        round_players[id].round_id = round_id}
       IN  IF round_id \in DOMAIN rounds
           THEN /\ rounds' = Without(rounds, {round_id})
                /\ round_players' = Without(round_players, gone)
                /\ hole_scores' = Without(hole_scores, gone)
           ELSE UNCHANGED <<rounds, round_players, hole_scores>>
    /\ response' = Redirect
    /\ UNCHANGED <<calc, players, courses, holes, leagues, next_round_id,
                   next_rp_id>>

(***************************************************************************)
(* crud.compute_league_standings(db, league, rounds), with rounds =         *)
(* crud.get_rounds_by_league(db, league.id).  Points are floats in the     *)
(* code; here they are counted in units of 1/PointsUnit, which is exact    *)
(* while a round has at most three joint winners.  An average is the pair  *)
(* <<sum, count>>.                                                         *)
(***************************************************************************)
PointsUnit == 2 * 3

\* a < b for averages <<sum, count>> with count > 0
AvgLess(a, b) == a[1] * b[2] < b[1] * a[2]
AvgEq(a, b) == a[1] * b[2] = b[1] * a[2]

name_of(pid) == players[pid].name

\* the mutant of main_before used by the checks below: no tie-break by name
main_before_no_name(a, b) ==
    \/ a.points > b.points
    \/ a.points = b.points /\ a.rounds > b.rounds

\* lines 350-353
main_before(a, b) ==
    \/ a.points > b.points
    \/ a.points = b.points /\ a.rounds > b.rounds
    \/ a.points = b.points /\ a.rounds = b.rounds
        /\ name_of(a.player) < name_of(b.player)

\* lines 355-358
net_before(a, b) ==
    \/ AvgLess(a.avg_net, b.avg_net)
    \/ AvgEq(a.avg_net, b.avg_net) /\ a.rounds > b.rounds
    \/ AvgEq(a.avg_net, b.avg_net) /\ a.rounds = b.rounds
        /\ name_of(a.player) < name_of(b.player)

\* lines 360-363
scratch_before(a, b) ==
    \/ a.total_scratch > b.total_scratch
    \/ a.total_scratch = b.total_scratch /\ a.rounds > b.rounds
    \/ a.total_scratch = b.total_scratch /\ a.rounds = b.rounds
        /\ name_of(a.player) < name_of(b.player)

\* lines 217-221: round-players by Stableford points, best first, those
\* without points last
points_before(a, b) ==
    LET isnone(id) == round_players[id].stableford_hcp_total = Null
        key(id) == IF isnone(id) THEN 0
                   ELSE -Val(round_players[id].stableford_hcp_total)
    IN  \/ (~isnone(a) /\ isnone(b))
        \/ (isnone(a) = isnone(b) /\ key(a) < key(b))

\* key(a) < key(b) for the key function of the sort
key_before(key, a, b) ==
    CASE key = "points" -> points_before(a, b)
      [] key = "main" -> main_before(a, b)
      [] key = "net" -> net_before(a, b)
      [] key = "scratch" -> scratch_before(a, b)

\* a list built by a comprehension is a list: its elements are computed once
list(q) == SelectSeq(q, LAMBDA x : TRUE)

\* sorted(rows, key=...): a stable sort
sorted(rows, key) ==
    LET rs == list(rows)
        n == Len(rs)
        rank == [i \in 1..n |-> Cardinality({j \in 1..n :
                        \/ key_before(key, rs[j], rs[i])
                        \/ (~key_before(key, rs[i], rs[j]) /\ j < i)})]
        ranks == list(rank)
    IN  list([k \in 1..n |-> rs[CHOOSE i \in 1..n : ranks[i] = k - 1]])

\* the rounds of the league, by date; the model keeps no dates and takes the
\* order of creation
get_rounds_by_league(league_id) ==
    SortedIds({rid \in DOMAIN rounds : rounds[rid].league_id = Some(league_id)})

\* line 211: the participants of the round with a card
scored_round_players(rid) ==
    SelectSeq(get_round_players(round_players, rid),
              LAMBDA id : round_players[id].gross_total # Null)

\* lines 217-221 and 270: by Stableford points, best first, those without
\* points dropped
valid_round_players(rid) ==
    SelectSeq(sorted(scored_round_players(rid), "points"),
              LAMBDA id : round_players[id].stableford_hcp_total # Null)

\* lines 276-282
f1_winners(rid) ==
    LET valid == valid_round_players(rid)
    IN  SelectSeq(valid,
            LAMBDA id : round_players[id].stableford_hcp_total
                            = round_players[valid[1]].stableford_hcp_total)

\* the mutant of points_per_winner used by the checks below: n points a round
points_per_winner_n(n_valid, n_winners) ==
    (PointsUnit * n_valid) \div n_winners

\* lines 285-289, in units of 1/PointsUnit
points_per_winner(n_valid, n_winners) ==
    LET total_points_round == IF n_valid - 1 < 0 THEN 0 ELSE n_valid - 1
    IN  (PointsUnit * total_points_round) \div n_winners

\* lines 291-292: what the round adds to the player's f1_points
f1_round_points(rid, pid) ==
    LET valid == valid_round_players(rid)
        winners == f1_winners(rid)
    IN  IF valid = <<>> THEN 0
        ELSE SumSeq([i \in 1..Len(winners) |->
                IF round_players[winners[i]].player_id = pid
                THEN points_per_winner(Len(valid), Len(winners)) ELSE 0])

\* the scored participations of the league's rounds, in the order the loops
\* of lines 210 and 224 meet them
league_round_players(league_id) ==
    LET rids == get_rounds_by_league(league_id)
    IN  SortedIds({id \in DOMAIN round_players :
            /\ InSeq(round_players[id].round_id, rids)
            /\ round_players[id].gross_total # Null})

NullAsZero(x) == IF x = Null THEN 0 ELSE Val(x)

\* stats[player_id] after the loop over the rounds
player_stats(league_id, pid) ==
    LET rids == get_rounds_by_league(league_id)
        mine == SelectSeq(league_round_players(league_id),
                    LAMBDA id : round_players[id].player_id = pid)
        col(f(_)) == SumSeq([i \in 1..Len(mine) |-> f(round_players[mine[i]])])
        one(x) == IF x = Null THEN 0 ELSE 1
        r_rounds(rp) == 1
        r_wins(rp) == IF rp.result = "win" THEN 1 ELSE 0
        r_ties(rp) == IF rp.result = "tie" THEN 1 ELSE 0
        r_net(rp) == NullAsZero(rp.net_total)
        r_netn(rp) == one(rp.net_total)
        r_scratch(rp) == NullAsZero(rp.stableford_scratch_total)
        r_stableford(rp) == NullAsZero(rp.stableford_hcp_total)
        r_gross(rp) == NullAsZero(rp.gross_total)
    IN  [player |-> pid,
         rounds |-> col(r_rounds),
         wins |-> col(r_wins),
         ties |-> col(r_ties),
         f1_points |-> SumSeq([i \in 1..Len(rids) |-> f1_round_points(rids[i], pid)]),
         gross_sum |-> col(r_gross),
         net_sum |-> col(r_net),
         net_count |-> col(r_netn),
         scratch_sum |-> col(r_scratch),
         stableford_sum |-> col(r_stableford)]

\* the keys of stats, in insertion order: players by first scored card
RECURSIVE first_seen(_, _)
first_seen(ids, seen) ==
    IF ids = <<>> THEN <<>>
    ELSE LET pid == round_players[Head(ids)].player_id
         IN  IF pid \in seen THEN first_seen(Tail(ids), seen)
             ELSE <<pid>> \o first_seen(Tail(ids), seen \cup {pid})

PlayersOf(rows) == [i \in 1..Len(rows) |-> rows[i].player]

\* the mutant of net_champions used by the checks below: no minimum of rounds
net_champions_any_rounds(net_rows) ==
    IF net_rows = <<>> THEN <<>>
    ELSE PlayersOf(SelectSeq(net_rows,
            LAMBDA row : AvgEq(row.avg_net, net_rows[1].avg_net)))

\* lines 386-392
net_champions(net_rows) ==
    LET eligible_net == SelectSeq(net_rows, LAMBDA row : row.rounds >= MinNetRounds)
    IN  IF eligible_net = <<>> THEN <<>>
        ELSE PlayersOf(SelectSeq(eligible_net,
                LAMBDA row : AvgEq(row.avg_net, eligible_net[1].avg_net)))

\* the mutant of main_champions used by the checks below: the leader alone
main_champions_first(main_rows) ==
    IF main_rows = <<>> THEN <<>> ELSE <<main_rows[1].player>>

\* lines 378-383
main_champions(main_rows) ==
    IF main_rows = <<>> THEN <<>>
    ELSE PlayersOf(SelectSeq(main_rows,
            LAMBDA row : row.points = main_rows[1].points))

\* lines 395-400
scratch_champions(scratch_rows) ==
    IF scratch_rows = <<>> THEN <<>>
    ELSE PlayersOf(SelectSeq(scratch_rows,
            LAMBDA row : row.total_scratch = scratch_rows[1].total_scratch))

\* the mutant of champions_when used by the checks below: champions of an
\* open league too
champions_always(is_closed, champs) == champs

\* line 376: champions are determined only for a closed league
champions_when(is_closed, champs) == IF is_closed THEN champs ELSE <<>>

compute_league_standings(league_id) ==
    LET pids == first_seen(league_round_players(league_id), {})
        stats == list([i \in 1..Len(pids) |-> player_stats(league_id, pids[i])])
        with_net == SelectSeq(stats, LAMBDA s : s.net_count > 0)
        with_scratch == SelectSeq(stats, LAMBDA s : s.scratch_sum > 0)
        main_rows ==
            sorted([i \in 1..Len(stats) |->
                        [player |-> stats[i].player, points |-> stats[i].f1_points,
                         rounds |-> stats[i].rounds]],
                   "main")
        net_rows ==
            sorted([i \in 1..Len(with_net) |->
                        [player |-> with_net[i].player,
                         avg_net |-> <<with_net[i].net_sum, with_net[i].net_count>>,
                         rounds |-> with_net[i].rounds]],
                   "net")
        scratch_rows ==
            sorted([i \in 1..Len(with_scratch) |->
                        [player |-> with_scratch[i].player,
                         total_scratch |-> with_scratch[i].scratch_sum,
                         rounds |-> with_scratch[i].rounds]],
                   "scratch")
        closed == leagues[league_id].is_closed
    IN  [stats |-> stats,
         main |-> main_rows,
         net |-> net_rows,
         scratch |-> scratch_rows,
         champions |->
            [main_players |-> champions_when(closed, main_champions(main_rows)),
             net_players |-> champions_when(closed, net_champions(net_rows)),
             scratch_players |->
                champions_when(closed, scratch_champions(scratch_rows))]]

(***************************************************************************)
(* SpecCalc: one call of a calculator function on arguments drawn from the *)
(* bounded sets.                                                           *)
(***************************************************************************)
CourseHandicapCalls ==
    {[fn |-> "course_handicap", hcp_tenths |-> t, slope |-> s,
      done |-> FALSE, out |-> None] : t \in 0..MaxHcpTenths, s \in Slopes}

StrokesReceivedCalls ==
    {[fn |-> "strokes_received_per_hole", ch |-> ch, holes |-> HolesOf(perm),
      done |-> FALSE, raised |-> FALSE, out |-> <<>>] : ch \in 0..MaxCH, perm \in StrokeIndexPerms}

StablefordCalls ==
    {[fn |-> "stableford_points", strokes |-> g, par |-> p,
      done |-> FALSE, out |-> None] : g \in (-MaxBelowZero)..MaxStrokes, p \in Pars}

EmptyDb ==
    /\ players = <<>>
    /\ courses = <<>>
    /\ holes = <<>>
    /\ leagues = <<>>
    /\ rounds = <<>>
    /\ round_players = <<>>
    /\ hole_scores = <<>>
    /\ next_round_id = 1
    /\ next_rp_id = 1

InitCalc ==
    /\ calc \in CourseHandicapCalls \cup StrokesReceivedCalls \cup StablefordCalls
    /\ EmptyDb
    /\ response = NoResponse

CallCourseHandicap ==
    /\ calc.fn = "course_handicap"
    /\ ~calc.done
    /\ calc' = [calc EXCEPT !.done = TRUE,
                            !.out = course_handicap(calc.hcp_tenths, calc.slope)]
    /\ UNCHANGED <<db_vars, response>>

CallStrokesReceived ==
    /\ calc.fn = "strokes_received_per_hole"
    /\ ~calc.done
    /\ calc' = IF strokes_received_raises(calc.ch, calc.holes)
               THEN [calc EXCEPT !.done = TRUE, !.raised = TRUE]
               ELSE [calc EXCEPT !.done = TRUE,
                        !.out = strokes_received_per_hole(calc.ch, calc.holes)]
    /\ UNCHANGED <<db_vars, response>>

CallStablefordPoints ==
    /\ calc.fn = "stableford_points"
    /\ ~calc.done
    /\ calc' = [calc EXCEPT !.done = TRUE,
                            !.out = stableford_points(calc.strokes, calc.par)]
    /\ UNCHANGED <<db_vars, response>>

NextCalc == CallCourseHandicap \/ CallStrokesReceived \/ CallStablefordPoints

SpecCalc == InitCalc /\ [][NextCalc]_vars

(***************************************************************************)
(* The store the requests start from: three players, one course with its   *)
(* 18 holes configured, one open league, no rounds.                        *)
(***************************************************************************)
Players == {1, 2, 3}
CourseId == 1
LeagueId == 1

BaseTables ==
    /\ calc = NoCall
    /\ players = [p \in Players |-> [name |-> p, hcp_exact |-> 143]]
    /\ courses = (CourseId :> [slope_yellow |-> 120, rating_yellow |-> 720])
    /\ holes = (CourseId :> CourseHoles)
    /\ leagues = (LeagueId :> [is_closed |-> FALSE])
    /\ response = NoResponse

InitDb ==
    /\ BaseTables
    /\ rounds = <<>>
    /\ round_players = <<>>
    /\ hole_scores = <<>>
    /\ next_round_id = 1
    /\ next_rp_id = 1

\* a submitted new-round form
RoundForm(match_type, player_ids) ==
    [course_id |-> CourseId, match_type |-> match_type, player_ids |-> player_ids]

\* the card is posted to the round-player's own round, as the pages link it
OwnRound(rid, rp) == round_players[rp].round_id = rid

(***************************************************************************)
(* Spec: rounds of two players; a card is posted to any pair of a round id *)
(* and a round-player id (the handler takes both from the URL)             *)
(***************************************************************************)
MaxRounds == 2

Init == InitDb

Next ==
    \/ \E rf \in {RoundForm(Some(LeagueId), <<2, 1>>)} :
            round_new_create(rf.course_id, rf.match_type, rf.player_ids, MaxRounds)
    \/ \E rid \in DOMAIN rounds, rp \in DOMAIN round_players,
           f \in {FormPar, FormBogey} :
            round_card_player_save(rid, rp, f)
    \/ \E l \in DOMAIN leagues : close_league(l)

Spec == Init /\ [][Next]_vars

(***************************************************************************)
(* SpecRounds: a round of three players and rounds of one, league and      *)
(* friendly, cards posted from the pages                                   *)
(***************************************************************************)
\* the first round is the league's round of three players; the rounds that
\* follow are rounds of one player, of the league or friendly
RoundFormsFor(round_id) ==
    IF round_id = 1 THEN {RoundForm(Some(LeagueId), <<2, 1, 3>>)}
    ELSE {RoundForm(Some(LeagueId), <<3>>), RoundForm(Null, <<1>>)}

NextRounds ==
    \/ \E rf \in RoundFormsFor(next_round_id) :
            round_new_create(rf.course_id, rf.match_type, rf.player_ids, MaxRounds)
    \/ \E rid \in DOMAIN rounds, rp \in DOMAIN round_players,
           f \in {FormPar, FormBogey} :
            /\ OwnRound(rid, rp)
            /\ round_card_player_save(rid, rp, f)
    \/ \E l \in DOMAIN leagues : close_league(l)

SpecRounds == Init /\ [][NextRounds]_vars

(***************************************************************************)
(* SpecLeague: a league in which players 1 and 2 have already played       *)
(* PlayedRounds complete rounds (every card saved, every round resolved),  *)
(* and go on to MaxLeagueRounds rounds.  The initial stores are the ones   *)
(* SpecRounds' requests lead to after PlayedRounds rounds of two players.  *)
(***************************************************************************)
PlayedRounds == 3
MaxLeagueRounds == 5

LeaguePlayers == <<1, 2>>

\* the cards of a round played: those of its first and of its second
\* participant
PlayedCards ==
    {<<FormPar, FormPar>>, <<FormPar, FormBogey>>, <<FormBogey, FormPar>>}

\* the tables after the rounds 1..PlayedRounds have been created and
\* cards[rid][i] saved for the i-th participant of round rid
played_round_players(cards) ==
    [id \in 1..(2 * PlayedRounds) |->
        LET rid == (id + 1) \div 2
            i == id - 2 * (rid - 1)
            rp == new_round_player(rid, LeaguePlayers[i],
                                   courses[CourseId].slope_yellow)
        IN  with_totals((id :> rp), id,
                saved_card(rp.course_handicap, CourseHoles, cards[rid][i]).totals)[id]]

played_hole_scores(cards) ==
    [id \in 1..(2 * PlayedRounds) |->
        LET rid == (id + 1) \div 2
            i == id - 2 * (rid - 1)
            rp == new_round_player(rid, LeaguePlayers[i],
                                   courses[CourseId].slope_yellow)
        IN  saved_card(rp.course_handicap, CourseHoles, cards[rid][i]).hole_scores]

InitLeague ==
    /\ BaseTables
    /\ \E cards \in [1..PlayedRounds -> PlayedCards] :
        LET rnds0 == [rid \in 1..PlayedRounds |-> new_round(CourseId, Some(LeagueId))]
            rps0 == played_round_players(cards)
        IN  /\ rounds = [rid \in 1..PlayedRounds |->
                    close_round_and_set_winner(rnds0, rps0, rid).rounds[rid]]
            /\ round_players = [id \in 1..(2 * PlayedRounds) |->
                    close_round_and_set_winner(rnds0, rps0, rps0[id].round_id)
                        .round_players[id]]
            /\ hole_scores = played_hole_scores(cards)
    /\ next_round_id = PlayedRounds + 1
    /\ next_rp_id = 2 * PlayedRounds + 1

\* the cards posted are those of the rounds that follow the rounds played
CurrentRound(rid, rp) == OwnRound(rid, rp) /\ rid > PlayedRounds

NextLeague ==
    \/ \E rf \in {RoundForm(Some(LeagueId), LeaguePlayers)} :
            round_new_create(rf.course_id, rf.match_type, rf.player_ids,
                             MaxLeagueRounds)
    \/ \E rid \in DOMAIN rounds, rp \in DOMAIN round_players,
           f \in {FormPar, FormBogey} :
            /\ CurrentRound(rid, rp)
            /\ round_card_player_save(rid, rp, f)
    \/ \E l \in DOMAIN leagues : close_league(l)

SpecLeague == InitLeague /\ [][NextLeague]_vars

(***************************************************************************)
(* SpecCards: rounds of one player on the configured course and on a       *)
(* course just created, whose holes are not configured yet; a round        *)
(* submitted with a player id that is not in the table; cards with a       *)
(* course handicap, cards with a field that is no number; players edited,  *)
(* rounds deleted.  A card is posted to any pair of a round id and a       *)
(* round-player id.                                                        *)
(***************************************************************************)
NewCourseId == 2
UnknownPlayerId == 4

InitCards ==
    /\ calc = NoCall
    /\ players = [p \in Players |-> [name |-> p, hcp_exact |-> 143]]
    /\ courses = (CourseId :> [slope_yellow |-> 120, rating_yellow |-> 720])
                    @@ (NewCourseId :> [slope_yellow |-> 120, rating_yellow |-> 720])
    /\ holes = (CourseId :> CourseHoles) @@ (NewCourseId :> <<>>)
    /\ leagues = (LeagueId :> [is_closed |-> FALSE])
    /\ response = NoResponse
    /\ rounds = <<>>
    /\ round_players = <<>>
    /\ hole_scores = <<>>
    /\ next_round_id = 1
    /\ next_rp_id = 1

NextCards ==
    \/ \E c \in DOMAIN courses, pids \in {<<1>>, <<UnknownPlayerId>>} :
            round_new_create(c, Some(LeagueId), pids, MaxRounds)
    \/ \E rid \in DOMAIN rounds, rp \in DOMAIN round_players,
           f \in {FormDouble, FormParScratch, FormNotANumber} :
            round_card_player_save(rid, rp, f)
    \/ \E h \in {100, 143} : player_edit(1, h)
    \/ \E rid \in DOMAIN rounds : admin_round_delete(rid)
    \/ \E l \in DOMAIN leagues : close_league(l)

SpecCards == InitCards /\ [][NextCards]_vars

(***************************************************************************)
(* SpecClose: rounds of one player and rounds left without participants    *)
(* (the form named a player that is not in the table: create_round has     *)
(* committed the round when it fails); a card is posted to any pair of a   *)
(* round id and a round-player id, so a round without participants is      *)
(* closed when a card is posted to it; the league is closed, rounds are    *)
(* deleted, the player is edited                                           *)
(***************************************************************************)
NextClose ==
    \/ \E pids \in {<<1>>, <<UnknownPlayerId>>} :
            round_new_create(CourseId, Some(LeagueId), pids, MaxRounds)
    \/ \E rid \in DOMAIN rounds, rp \in DOMAIN round_players,
           f \in {FormPar, FormBogey, FormDouble} :
            round_card_player_save(rid, rp, f)
    \/ \E l \in DOMAIN leagues : close_league(l)
    \/ \E rid \in DOMAIN rounds : admin_round_delete(rid)
    \/ \E h \in {100} : player_edit(1, h)

SpecClose == Init /\ [][NextClose]_vars

(***************************************************************************)
(* SpecSave: one round of two players, whose handicap index and whose      *)
(* course's stroke indexes are drawn from small sets; cards of every kind  *)
(* of entry are posted to it again and again, and the call of              *)
(* crud.save_card_for_round_player is kept in calc                         *)
(***************************************************************************)
InitSave ==
    /\ calc = NoCall
    /\ response = NoResponse
    /\ \E h \in SaveHcps :
            players = [p \in Players |-> [name |-> p, hcp_exact |-> h]]
    /\ courses = (CourseId :> [slope_yellow |-> SaveSlope, rating_yellow |-> 720])
    /\ \E perm \in SavePerms : holes = (CourseId :> HolesOf(perm))
    /\ leagues = (LeagueId :> [is_closed |-> FALSE])
    /\ rounds = (1 :> new_round(CourseId, Some(LeagueId)))
    /\ round_players =
            (1 :> new_round_player(1, 2, courses[CourseId].slope_yellow))
                @@ (2 :> new_round_player(1, 1, courses[CourseId].slope_yellow))
    /\ hole_scores = (1 :> <<>>) @@ (2 :> <<>>)
    /\ next_round_id = 2
    /\ next_rp_id = 3

NextSave ==
    \E rid \in DOMAIN rounds, rp \in DOMAIN round_players, f \in SaveForms :
        round_card_player_save_call(rid, rp, f)

SpecSave == InitSave /\ [][NextSave]_vars

Returned(fn) == calc.fn = fn /\ calc.done

RECURSIVE SumOver(_, _)
SumOver(f, S) ==
    IF S = {} THEN 0
    ELSE LET x == CHOOSE y \in S : TRUE IN f[x] + SumOver(f, S \ {x})

IsStrokeIndexPermutation(hs) ==
    /\ Len(hs) = NumHoles
    /\ {hs[i].stroke_index : i \in 1..Len(hs)} = HoleNumbers
    /\ NumbersOf(hs) = HoleNumbers

\* C1: for ch >= 0 and 18 holes whose stroke indexes are a permutation of
\* 1..18, the strokes received over the 18 holes sum to exactly ch.
C1_StrokesSumToCH ==
    (Returned("strokes_received_per_hole") /\ calc.ch >= 0
        /\ IsStrokeIndexPermutation(calc.holes))
    => /\ ~calc.raised
       /\ SumOver(calc.out, HoleNumbers) = calc.ch

C1_Witness ==
    /\ Returned("strokes_received_per_hole")
    /\ calc.ch = 25
    /\ calc.holes = HolesOf(Mirror(Rotation(4)))
    /\ SumOver(calc.out, HoleNumbers) = 25

\* C2: for ch >= 0 and a stroke-index permutation, every hole receives
\* floor(ch / 18) strokes, plus one exactly when its stroke index is at most
\* ch mod 18.
C2_BasePlusHardestHoles ==
    (Returned("strokes_received_per_hole") /\ calc.ch >= 0
        /\ IsStrokeIndexPermutation(calc.holes))
    => /\ ~calc.raised
       /\ \A i \in 1..Len(calc.holes) :
            LET h == calc.holes[i]
            IN  calc.out[h.number] =
                    (calc.ch \div 18)
                        + (IF h.stroke_index <= calc.ch % 18 THEN 1 ELSE 0)

C2_Witness ==
    /\ Returned("strokes_received_per_hole")
    /\ calc.ch = 15
    /\ calc.holes = HolesOf(Rotation(7))
    /\ \A i \in HoleNumbers :
        calc.out[i] = (IF calc.holes[i].stroke_index <= 15 THEN 1 ELSE 0)

\* the table of points as the specification prints it
PointsTableAsWritten(diff) ==
    IF diff <= -3 THEN 6
    ELSE IF diff = -2 THEN 5
    ELSE IF diff = -1 THEN 4
    ELSE IF diff = 0 THEN 3
    ELSE IF diff = 1 THEN 2
    ELSE IF diff = 2 THEN 1
    ELSE 0

C4_MonotoneAndBounded ==
    Returned("stableford_points")
    => /\ calc.out \in 0..6
       /\ \A more \in 1..3 :
            stableford_points(calc.strokes + more, calc.par) <= calc.out

C4_Witness ==
    /\ Returned("stableford_points")
    /\ calc.strokes - calc.par = -1
    /\ calc.out = 3
    /\ stableford_points(calc.strokes + 1, calc.par) = 2

\* hcp_exact * slope / 113 rounded to the nearest integer, halves up
RoundHalfUp(num, den) == (2 * num + den) \div (2 * den)

\* C5: course_handicap is hcp_exact * slope / 113 rounded to the nearest
\* integer, an exact half rounded up.
C5_HalfUp ==
    Returned("course_handicap")
    => calc.out = RoundHalfUp(calc.hcp_tenths * calc.slope, 10 * NeutralSlope)

(***************************************************************************)
(* Round resolution                                                        *)
(***************************************************************************)
RoundRps(rid) == {id \in DOMAIN round_players : round_players[id].round_id = rid}

HcpPoints(id) == round_players[id].stableford_hcp_total

\* the participants whose Stableford total is the maximum of the round
AtMaximum(rid) ==
    {id \in RoundRps(rid) :
        /\ HcpPoints(id) # Null
        /\ \A o \in RoundRps(rid) :
            HcpPoints(o) # Null => Val(HcpPoints(o)) <= Val(HcpPoints(id))}

\* the round's stored winner and results are those of its current totals
ResolvedOnCurrentTotals(rid) ==
    LET W == AtMaximum(rid)
        r == rounds[rid]
        pids == [i \in 1..Cardinality(W) |-> round_players[SortedIds(W)[i]].player_id]
    IN  /\ W # {}
        /\ Cardinality(W) = 1 =>
            /\ r.winner_type = "single"
            /\ r.winner_player_ids = ToString(pids[1])
            /\ \A id \in RoundRps(rid) :
                round_players[id].result = IF id \in W THEN "win" ELSE "loss"
        /\ Cardinality(W) > 1 =>
            /\ r.winner_type = "tie"
            /\ r.winner_player_ids = join_comma(pids)
            /\ \A id \in RoundRps(rid) :
                round_players[id].result = IF id \in W THEN "tie" ELSE "loss"

\* C6: close_round_and_set_winner records as winners exactly the participants
\* at the maximum Stableford total: one of them gives "single", its player id,
\* "win" for it and "loss" for the others; several give "tie", all their
\* player ids comma-joined in round-player order, "tie" for them and "loss"
\* for the others.
C6_WinnersAreThoseAtMaximum ==
    \A rid \in DOMAIN rounds :
        rounds[rid].winner_type # None => ResolvedOnCurrentTotals(rid)

C6_Witness ==
    \E rid \in DOMAIN rounds :
        /\ rounds[rid].winner_type = "tie"
        /\ rounds[rid].winner_player_ids = "2,1"
        /\ \E id \in RoundRps(rid) :
            /\ round_players[id].player_id = 3
            /\ round_players[id].result = "loss"
            /\ HcpPoints(id) = Some(33)
        /\ \A id \in RoundRps(rid) :
            round_players[id].player_id # 3 =>
                /\ round_players[id].result = "tie"
                /\ HcpPoints(id) = Some(51)

\* C7: whenever every participant of a round has a gross total, the round is
\* resolved and its winner and results are those of the current Stableford
\* totals.
C7_ResultsFollowEverySave ==
    \A rid \in DOMAIN rounds :
        (RoundRps(rid) # {}
            /\ \A id \in RoundRps(rid) : round_players[id].gross_total # Null)
        => /\ rounds[rid].winner_type # None
           /\ ResolvedOnCurrentTotals(rid)

(***************************************************************************)
(* League standings                                                        *)
(***************************************************************************)
LeagueRounds == {rid \in DOMAIN rounds : rounds[rid].league_id = Some(LeagueId)}

\* the participants of the round with a Stableford total
WithPoints(rid) == {id \in RoundRps(rid) : HcpPoints(id) # Null}

\* the points the round owes the player, in units of 1/PointsUnit:
\* max(n - 1, 0) / k for each of the k participants at the maximum
RoundCredit(rid, pid) ==
    LET n == Cardinality(WithPoints(rid))
        k == Cardinality(AtMaximum(rid))
        mine == {id \in AtMaximum(rid) : round_players[id].player_id = pid}
    IN  IF mine = {} THEN 0
        ELSE Cardinality(mine) * ((PointsUnit * (IF n > 1 THEN n - 1 ELSE 0)) \div k)

LeagueCredit(pid) ==
    SumOver([rid \in LeagueRounds |-> RoundCredit(rid, pid)], LeagueRounds)

MainRows == compute_league_standings(LeagueId).main

\* C8: every round of the league credits max(n - 1, 0) / k points to each of
\* its k participants at the maximum and nothing to the others, and f1_points
\* is the sum of the credits over the rounds of the league.
C8_PointsPerRound ==
    LET rows == MainRows
    IN  /\ \A i \in 1..Len(rows) : rows[i].points = LeagueCredit(rows[i].player)
        /\ \A pid \in Players :
                (\A i \in 1..Len(rows) : rows[i].player # pid)
                    => LeagueCredit(pid) = 0

\* three scored participants, two of them joint best: one point each
C8_Witness ==
    /\ \E rid \in LeagueRounds :
        /\ Cardinality(WithPoints(rid)) = 3
        /\ Cardinality(AtMaximum(rid)) = 2
        /\ RoundCredit(rid, 1) = PointsUnit
        /\ RoundCredit(rid, 3) = 0
    /\ \E rid \in DOMAIN rounds \ LeagueRounds : WithPoints(rid) # {}
    /\ LET rows == MainRows
       IN  \E i \in 1..Len(rows) : rows[i].player = 1 /\ rows[i].points = PointsUnit

Champions == compute_league_standings(LeagueId).champions

\* C9: while the league is open, the three champion lists are empty.
C9_NoChampionsWhileOpen ==
    ~leagues[LeagueId].is_closed =>
        /\ Champions.main_players = <<>>
        /\ Champions.net_players = <<>>
        /\ Champions.scratch_players = <<>>

C9_Witness ==
    /\ ~leagues[LeagueId].is_closed
    /\ Len(MainRows) = 2
    /\ Len(compute_league_standings(LeagueId).scratch) = 2
    /\ \E rid \in LeagueRounds : rid > PlayedRounds /\ WithPoints(rid) # {}
    /\ Champions.main_players = <<>>

\* the cards of the player in the rounds of the league
CardsOf(pid) ==
    {id \in DOMAIN round_players :
        /\ round_players[id].round_id \in LeagueRounds
        /\ round_players[id].player_id = pid
        /\ round_players[id].gross_total # Null}

RoundsPlayed(pid) == Cardinality(CardsOf(pid))

NetSum(pid) ==
    SumOver([id \in CardsOf(pid) |-> Val(round_players[id].net_total)], CardsOf(pid))

\* average net of p at most that of q (both have played)
AvgNetAtMost(p, q) == NetSum(p) * RoundsPlayed(q) <= NetSum(q) * RoundsPlayed(p)

SeqToSet(q) == {q[i] : i \in 1..Len(q)}

\* C10: in a closed league the net champions are exactly the players with at
\* least 5 rounds whose average net is the minimum among the players with at
\* least 5 rounds; the list is empty when nobody has 5 rounds.
C10_NetChampions ==
    leagues[LeagueId].is_closed =>
        /\ SeqToSet(Champions.net_players) =
            {p \in Players :
                /\ RoundsPlayed(p) >= 5
                /\ \A q \in Players : RoundsPlayed(q) >= 5 => AvgNetAtMost(p, q)}
        /\ Len(Champions.net_players) = Cardinality(SeqToSet(Champions.net_players))

\* player 2 has the better average over four rounds, player 1 has five
C10_Witness ==
    /\ leagues[LeagueId].is_closed
    /\ RoundsPlayed(1) = 5
    /\ RoundsPlayed(2) = 4
    /\ ~AvgNetAtMost(1, 2)
    /\ Champions.net_players = <<1>>

\* the players with a card in a round of the league
Scored == {p \in Players : CardsOf(p) # {}}

\* C11: in a closed league with a scored participant the main champions are
\* exactly the players whose f1_points are the highest of the main
\* leaderboard, all of them when several share the top.
C11_MainChampions ==
    (leagues[LeagueId].is_closed /\ Scored # {}) =>
        /\ SeqToSet(Champions.main_players) =
            {p \in Scored : \A q \in Scored : LeagueCredit(q) <= LeagueCredit(p)}
        /\ Len(Champions.main_players) = Cardinality(SeqToSet(Champions.main_players))

\* players 2 and 1 share the round of three, player 3 has two rounds and no
\* points
C11_Witness ==
    /\ leagues[LeagueId].is_closed
    /\ LeagueCredit(1) = PointsUnit
    /\ LeagueCredit(2) = PointsUnit
    /\ LeagueCredit(3) = 0
    /\ RoundsPlayed(3) = 2
    /\ Champions.main_players = <<1, 2>>

\* the rows are in the order of the key: a is not after b
MainOrdered(a, b) ==
    \/ a.points > b.points
    \/ a.points = b.points /\ a.rounds > b.rounds
    \/ a.points = b.points /\ a.rounds = b.rounds
        /\ players[a.player].name <= players[b.player].name

NetOrdered(a, b) ==
    LET less == a.avg_net[1] * b.avg_net[2] < b.avg_net[1] * a.avg_net[2]
        same == a.avg_net[1] * b.avg_net[2] = b.avg_net[1] * a.avg_net[2]
    IN  \/ less
        \/ same /\ a.rounds > b.rounds
        \/ same /\ a.rounds = b.rounds
            /\ players[a.player].name <= players[b.player].name

ScratchOrdered(a, b) ==
    \/ a.total_scratch > b.total_scratch
    \/ a.total_scratch = b.total_scratch /\ a.rounds > b.rounds
    \/ a.total_scratch = b.total_scratch /\ a.rounds = b.rounds
        /\ players[a.player].name <= players[b.player].name

OncePerPlayer(rows) ==
    \A i, j \in 1..Len(rows) : rows[i].player = rows[j].player => i = j

\* C13: the main leaderboard is sorted by descending f1_points, then
\* descending rounds played, then ascending name; the net leaderboard by
\* ascending average net, then descending rounds, then ascending name; the
\* scratch leaderboard by descending total scratch points, then descending
\* rounds, then ascending name; a player appears at most once in each.
C13_LeaderboardsSorted ==
    LET st == compute_league_standings(LeagueId)
    IN  /\ \A i \in 1..(Len(st.main) - 1) : MainOrdered(st.main[i], st.main[i + 1])
        /\ \A i \in 1..(Len(st.net) - 1) : NetOrdered(st.net[i], st.net[i + 1])
        /\ \A i \in 1..(Len(st.scratch) - 1) :
                ScratchOrdered(st.scratch[i], st.scratch[i + 1])
        /\ OncePerPlayer(st.main) /\ OncePerPlayer(st.net)
        /\ OncePerPlayer(st.scratch)
        /\ \A i \in 1..Len(st.main) :
                /\ st.main[i].points = LeagueCredit(st.main[i].player)
                /\ st.main[i].rounds = RoundsPlayed(st.main[i].player)

\* players 2 and 1, met in this order, are level on points and rounds and are
\* listed by name; player 3 has played one round more and leads the net
\* leaderboard on a level average
C13_Witness ==
    LET st == compute_league_standings(LeagueId)
    IN  /\ first_seen(league_round_players(LeagueId), {}) = <<2, 1, 3>>
        /\ LeagueCredit(1) = LeagueCredit(2)
        /\ RoundsPlayed(1) = RoundsPlayed(2)
        /\ RoundsPlayed(3) = 2
        /\ \E i \in 1..(Len(st.main) - 1) :
                st.main[i].player = 1 /\ st.main[i + 1].player = 2
        /\ PlayersOf(st.net) = <<3, 1, 2>>
        /\ NetSum(3) = 2 * NetSum(1)
        /\ Len(st.scratch) = 3

ScratchSum(pid) ==
    SumOver([id \in CardsOf(pid) |->
                Val(round_players[id].stableford_scratch_total)], CardsOf(pid))

\* C12: in a closed league with a scored participant the scratch champions
\* are exactly the players whose total of scratch Stableford points is the
\* maximum over the players of the league, whatever the maximum is.
C12_ScratchChampions ==
    (leagues[LeagueId].is_closed /\ Scored # {}) =>
        SeqToSet(Champions.scratch_players) =
            {p \in Scored : \A q \in Scored : ScratchSum(q) <= ScratchSum(p)}

(***************************************************************************)
(* Cards                                                                   *)
(***************************************************************************)
Kept == DOMAIN round_players \cap DOMAIN round_players'

\* C14: once a RoundPlayer is created, no later operation changes its
\* hcp_exact_day or its course_handicap.
C14_HandicapFrozen ==
    [][\A id \in Kept :
        /\ round_players'[id].hcp_exact_day = round_players[id].hcp_exact_day
        /\ round_players'[id].course_handicap = round_players[id].course_handicap]_vars

Totals(rp) ==
    <<rp.gross_total, rp.net_total, rp.stableford_hcp_total,
      rp.stableford_scratch_total, rp.putts_total>>

\* the rows are one card of 18 holes and the totals are the sums of its rows
FullCard(rp, rows) ==
    /\ Len(rows) = NumHoles
    /\ {rows[i].hole_number : i \in 1..Len(rows)} = HoleNumbers
    /\ rp.gross_total = Some(SumSeq([i \in 1..Len(rows) |-> rows[i].gross_strokes]))
    /\ rp.net_total = Some(SumSeq([i \in 1..Len(rows) |-> rows[i].net_strokes]))
    /\ rp.stableford_hcp_total =
            Some(SumSeq([i \in 1..Len(rows) |-> rows[i].stableford_points]))
    /\ rp.putts_total =
            Some(SumSeq([i \in 1..Len(rows) |->
                    IF rows[i].putts = Null THEN 0 ELSE Val(rows[i].putts)]))

RpCourse(id) == rounds[round_players[id].round_id].course_id

\* C15: a successful card save for a RoundPlayer whose course has its 18
\* holes leaves the RoundPlayer with exactly 18 HoleScore rows, one per hole,
\* and with the totals of these rows.
C15_SaveReplacesCard ==
    [][\A id \in Kept :
        (/\ response'.status = 303
         /\ Len(holes[RpCourse(id)]) = NumHoles
         /\ \/ hole_scores'[id] # hole_scores[id]
            \/ Totals(round_players'[id]) # Totals(round_players[id]))
        => FullCard(round_players'[id], hole_scores'[id])]_vars

\* C16: a card save that fails leaves the committed rows of the RoundPlayer
\* in place, or has replaced them by the complete new card.
C16_FailedSaveKeepsCard ==
    [][\A id \in Kept :
        (response'.status = 500 /\ hole_scores[id] # <<>>)
        => \/ hole_scores'[id] = hole_scores[id]
           \/ FullCard(round_players'[id], hole_scores'[id])]_vars

\* C17: while every round is on a course with fewer than 18 holes, no card
\* is stored: no RoundPlayer has HoleScore rows or totals.
C17_NoCardWithoutHoles ==
    (\A rid \in DOMAIN rounds : Len(holes[rounds[rid].course_id]) < NumHoles)
    => \A id \in DOMAIN round_players :
            /\ hole_scores[id] = <<>>
            /\ round_players[id].gross_total = Null

\* C18: close_round_and_set_winner does not resolve a round in which no
\* RoundPlayer has a Stableford total: it fails, and the request that failed
\* in it has changed no round's winner_type or winner_player_ids and no
\* RoundPlayer's result.
C18_FailedCloseChangesNothing ==
    [][/\ \A rid \in DOMAIN rounds' :
            rounds'[rid].winner_type # None =>
                \E id \in DOMAIN round_players' :
                    /\ round_players'[id].round_id = rid
                    /\ round_players'[id].stableford_hcp_total # Null
       /\ response'.at = "close_round_and_set_winner" =>
            /\ \A rid \in DOMAIN rounds \cap DOMAIN rounds' :
                /\ rounds'[rid].winner_type = rounds[rid].winner_type
                /\ rounds'[rid].winner_player_ids = rounds[rid].winner_player_ids
            /\ \A id \in Kept :
                    round_players'[id].result = round_players[id].result]_vars

\* the request was posted to a round without participants, for a RoundPlayer
\* of another round, whose card was saved
C18_Witness ==
    /\ response = ServerError("ValueError", "close_round_and_set_winner")
    /\ \E rid \in DOMAIN rounds :
        /\ RoundRps(rid) = {}
        /\ rounds[rid].winner_type = None
        /\ rounds[rid].winner_player_ids = None
    /\ \E id \in DOMAIN round_players :
        /\ round_players[id].gross_total # Null
        /\ round_players[id].result = None

\* C19: once the league is closed, no operation changes its standings: every
\* player keeps the f1_points and the rounds played of the main leaderboard
\* (the points and rounds of the rows, by C8 and C13).
C19_ClosedLeagueIsFinal ==
    [][leagues[LeagueId].is_closed =>
        \A p \in Players :
            /\ LeagueCredit(p)' = LeagueCredit(p)
            /\ RoundsPlayed(p)' = RoundsPlayed(p)]_vars

\* C20: a round has a winner_type or winner_player_ids only if every one of
\* its RoundPlayers has a gross_total, and a RoundPlayer has a result only in
\* such a round.
C20_WinnerOnlyWhenComplete ==
    /\ \A rid \in DOMAIN rounds :
        (rounds[rid].winner_type # None \/ rounds[rid].winner_player_ids # None)
        => \A id \in RoundRps(rid) : round_players[id].gross_total # Null
    /\ \A id \in DOMAIN round_players :
        round_players[id].result # None
        => \A o \in RoundRps(round_players[id].round_id) :
                round_players[o].gross_total # Null

\* one round is resolved, the other has one card of two
C20_Witness ==
    /\ \E rid \in DOMAIN rounds :
        /\ rounds[rid].winner_type = "single"
        /\ \E id \in RoundRps(rid) : round_players[id].result = "loss"
    /\ \E rid \in DOMAIN rounds :
        /\ rounds[rid].winner_type = None
        /\ \E id \in RoundRps(rid) : round_players[id].gross_total # Null
        /\ \E id \in RoundRps(rid) : round_players[id].gross_total = Null

(***************************************************************************)
(* The card                                                                *)
(***************************************************************************)
SaveReturned == calc.fn = "save_card_for_round_player"

\* the strokes received on the hole under the course handicap: one for every
\* full 18, one more on the holes of the lowest stroke indexes
ReceivedOn(ch, h) ==
    (ch \div NumHoles) + (IF h.stroke_index <= ch % NumHoles THEN 1 ELSE 0)

HoleOf(hs, n) == hs[CHOOSE i \in 1..Len(hs) : hs[i].number = n]

\* C21: after a card save the RoundPlayer's gross_total, net_total and
\* stableford_hcp_total are the sums of gross_strokes, net_strokes and
\* stableford_points over its stored rows, each row's net_strokes is its
\* gross_strokes minus the strokes received on the hole under the
\* RoundPlayer's course_handicap, and putts_total is the sum of the putts
\* that are not null.
C21_TotalsAreSumsOfRows ==
    SaveReturned =>
        LET rp == round_players[calc.rp_id]
            rows == hole_scores[calc.rp_id]
            hs == holes[rounds[rp.round_id].course_id]
        IN  /\ Len(rows) = NumHoles
            /\ rp.gross_total =
                    Some(SumSeq([i \in 1..Len(rows) |-> rows[i].gross_strokes]))
            /\ rp.net_total =
                    Some(SumSeq([i \in 1..Len(rows) |-> rows[i].net_strokes]))
            /\ rp.stableford_hcp_total =
                    Some(SumSeq([i \in 1..Len(rows) |-> rows[i].stableford_points]))
            /\ rp.putts_total =
                    Some(SumSeq([i \in 1..Len(rows) |->
                            IF rows[i].putts = Null THEN 0 ELSE Val(rows[i].putts)]))
            /\ \A i \in 1..Len(rows) :
                    rows[i].net_strokes =
                        rows[i].gross_strokes
                            - ReceivedOn(rp.course_handicap,
                                         HoleOf(hs, rows[i].hole_number))

\* the mixed card under course handicap 27: holes without putts, every hole
\* with one stroke received and nine with two
C21_Witness ==
    /\ SaveReturned
    /\ calc.form = FormMixed
    /\ round_players[1].course_handicap = 27
    /\ round_players[1].gross_total = Some(SumSeq(MixedGross))
    /\ round_players[1].net_total = Some(SumSeq(MixedGross) - 27)
    /\ \E i \in 1..NumHoles : hole_scores[1][i].putts = Null
    /\ round_players[1].putts_total = Some(24)

\* C22: every stored HoleScore row has gross_strokes >= 1.
C22_GrossAtLeastOne ==
    \A id \in DOMAIN hole_scores :
        \A i \in 1..Len(hole_scores[id]) : hole_scores[id][i].gross_strokes >= 1

\* the row the last save stored for the hole
SavedRow(n) ==
    LET rows == hole_scores[calc.rp_id]
    IN  rows[CHOOSE i \in 1..Len(rows) : rows[i].hole_number = n]

\* C23: the fir of a saved row is null on a par 3; on a par 4 or 5 it is
\* true when the fairway was ticked and null when no flag was submitted.
C23_FirCarriedOrNull ==
    SaveReturned =>
        \A n \in NumbersOf(calc.holes) :
            SavedRow(n).fir =
                IF HoleOf(calc.holes, n).par = 3 THEN Null
                ELSE IF calc.form.fir[n].kind = "absent" THEN Null
                ELSE Some(TRUE)

\* C24: the gir of a saved row is null exactly when no putts were entered
\* for the hole, and the stored putts are then null; otherwise gir is true
\* exactly when gross_strokes - putts <= par - 2.
C24_GirFromPutts ==
    SaveReturned =>
        \A n \in NumbersOf(calc.holes) :
            LET row == SavedRow(n)
                entry == calc.form.p[n]
            IN  IF entry.kind \in {"absent", "blank"}
                THEN row.putts = Null /\ row.gir = Null
                ELSE /\ row.putts = Some(entry.val)
                     /\ row.gir # Null
                     /\ Val(row.gir) <=>
                            (row.gross_strokes - entry.val
                                <= HoleOf(calc.holes, n).par - 2)

\* the mixed card: no putts on hole 5, none on the green of hole 3 (in
\* regulation), three of the six strokes of hole 7 (not in regulation)
C24_Witness ==
    /\ SaveReturned
    /\ calc.form = FormMixed
    /\ SavedRow(5).putts = Null /\ SavedRow(5).gir = Null
    /\ SavedRow(6).putts = Null
    /\ SavedRow(3).putts = Some(0) /\ SavedRow(3).gir = Some(TRUE)
    /\ SavedRow(7).putts = Some(3) /\ SavedRow(7).gir = Some(FALSE)

\* the holes of the saved card whose gross differs from par by a number in D,
\* the holes in one apart
HolesByDiff(D) ==
    {n \in NumbersOf(calc.holes) :
        /\ SavedRow(n).gross_strokes # 1
        /\ SavedRow(n).gross_strokes - HoleOf(calc.holes, n).par \in D}

\* C25: in the aggregates a save returns, a hole with gross 1 is a hole in
\* one whatever its par, every other hole is counted by gross - par
\* (<= -3 albatross, -2 eagle, -1 birdie, 0 par, 1 bogey, 2 double bogey,
\* >= 3 over double), and the eight counts sum to the number of holes.
C25_OneCategoryPerHole ==
    SaveReturned =>
        LET out == calc.out
        IN  /\ out.hio = Cardinality({n \in NumbersOf(calc.holes) :
                                        SavedRow(n).gross_strokes = 1})
            /\ out.albatros = Cardinality(HolesByDiff((0 - 20)..(0 - 3)))
            /\ out.eagles = Cardinality(HolesByDiff({0 - 2}))
            /\ out.birdies = Cardinality(HolesByDiff({0 - 1}))
            /\ out.pars = Cardinality(HolesByDiff({0}))
            /\ out.bogeys = Cardinality(HolesByDiff({1}))
            /\ out.dbl = Cardinality(HolesByDiff({2}))
            /\ out.overdbl = Cardinality(HolesByDiff(3..20))
            /\ out.hio + out.albatros + out.eagles + out.birdies + out.pars
                    + out.bogeys + out.dbl + out.overdbl = Len(calc.holes)

\* the mixed card: 1 on a par 3 and 1 on a par 4 are both holes in one, the
\* 2 on a par 5 is the albatross
C25_Witness ==
    /\ SaveReturned
    /\ calc.form = FormMixed
    /\ calc.out.hio = 2
    /\ calc.out.albatros = 1
    /\ calc.out.eagles = 1
    /\ calc.out.birdies = 3
    /\ calc.out.pars = 6
    /\ calc.out.bogeys = 2
    /\ calc.out.dbl = 1
    /\ calc.out.overdbl = 2

\* the save of this step is the save of the step before: same RoundPlayer,
\* same holes, same course handicap, same entries
SameSaveAgain ==
    /\ SaveReturned
    /\ calc'.fn = calc.fn
    /\ calc'.rp_id = calc.rp_id
    /\ calc'.holes = calc.holes
    /\ calc'.course_handicap = calc.course_handicap
    /\ calc'.form = calc.form

\* C26: saving the same card for the same RoundPlayer a second time returns
\* the same aggregates and leaves the stored rows and totals as they were,
\* and the resolution of the round that follows it, run on unchanged totals,
\* leaves winner_type, winner_player_ids and every result as they were.
C26_SaveTwiceIsSaveOnce ==
    [][SameSaveAgain =>
        /\ calc'.out = calc.out
        /\ hole_scores' = hole_scores
        /\ round_players' = round_players
        /\ rounds' = rounds
        /\ response' = Redirect]_vars

\* the mixed card has been saved for the second RoundPlayer and the round is
\* resolved: the state in which the same card is posted again
C26_Witness ==
    /\ SaveReturned
    /\ calc.form = FormMixed
    /\ calc.rp_id = 2
    /\ Len(hole_scores[2]) = NumHoles
    /\ rounds[1].winner_type = "single"
    /\ round_players[1].result = "loss"
    /\ round_players[2].result = "win"
    /\ ENABLED (round_card_player_save_call(1, 2, FormMixed) /\ UNCHANGED vars)

\* C29: on a course of 18 holes whose stroke indexes are a permutation of
\* 1..18, a card saved under a course handicap ch >= 0 has
\* net_total = gross_total - ch and at least as many handicap Stableford
\* points as scratch Stableford points.
C29_NetIsGrossMinusHandicap ==
    (SaveReturned /\ calc.course_handicap >= 0
        /\ IsStrokeIndexPermutation(calc.holes))
    => LET rp == round_players[calc.rp_id]
       IN  /\ rp.course_handicap = calc.course_handicap
           /\ Val(rp.net_total) = Val(rp.gross_total) - calc.course_handicap
           /\ Val(rp.stableford_hcp_total) >= Val(rp.stableford_scratch_total)

\* course handicap 27: more than one stroke on nine holes
C29_Witness ==
    /\ SaveReturned
    /\ calc.course_handicap = 27
    /\ calc.form = FormBogey
    /\ round_players[calc.rp_id].gross_total = Some(90)
    /\ round_players[calc.rp_id].net_total = Some(63)
    /\ Val(round_players[calc.rp_id].stableford_hcp_total)
            > Val(round_players[calc.rp_id].stableford_scratch_total)

(***************************************************************************)
(* Rounds and leagues                                                      *)
(***************************************************************************)
\* C27: a Round exists only together with its RoundPlayers: no stored round
\* is without the participants its request named (every request names at
\* least one).
C27_RoundWithItsPlayers ==
    \A rid \in DOMAIN rounds : RoundRps(rid) # {}

\* C28: a league that is closed stays closed at every step.
C28_ClosedStaysClosed ==
    [][\A l \in DOMAIN leagues :
        leagues[l].is_closed => l \in DOMAIN leagues' /\ leagues'[l].is_closed]_vars

\* the league is closed and a request made after the close has failed (a
\* close answers with a redirect); round 1 has been deleted and the player
\* edited
C28_Witness ==
    /\ leagues[LeagueId].is_closed
    /\ response.status = 500
    /\ DOMAIN rounds = {2}
    /\ players[1].hcp_exact = 100

\* C30: league points are credited for resolved rounds only: a player with
\* f1_points > 0 has at least one win or tie, and a participant to whom a
\* round credits points has the stored result 'win' or 'tie' in that round.
C30_PointsOnlyForResolvedRounds ==
    LET stats == compute_league_standings(LeagueId).stats
    IN  /\ \A i \in 1..Len(stats) :
                stats[i].f1_points > 0 => stats[i].wins + stats[i].ties >= 1
        /\ \A rid \in LeagueRounds : \A id \in RoundRps(rid) :
                (id \in AtMaximum(rid)
                    /\ RoundCredit(rid, round_players[id].player_id) > 0)
                => round_players[id].result \in {"win", "tie"}

====
